---- MODULE Spec2Model ----
(***************************************************************************)
(* Model of src/app.py: the Flask request handlers (upload_file,           *)
(* start_upload, get_status, pause_upload, resume_upload, stop_upload) and *)
(* the background thread upload_worker, which share the module globals     *)
(* upload_status, upload_thread, upload_pause_event and upload_stop_event. *)
(*                                                                         *)
(* Granularity: a request handler is one atomic action; the worker thread  *)
(* takes one step per statement that reads or writes shared state, so that *)
(* handlers and other workers interleave between its statements.           *)
(***************************************************************************)
EXTENDS Integers, Sequences, FiniteSets, Bags, TLC

VARIABLES
    upload_status,       \* app.py:19  the global status dict
    upload_thread,       \* app.py:29  0 models None, else the ordinal of the last Thread started
    upload_pause_event,  \* app.py:30  threading.Event, TRUE when set
    upload_stop_event,   \* app.py:31  threading.Event, TRUE when set
    session,             \* the client's Flask session cookie: the keys the code reads back
    disk,                \* SPREADSHEET_FOLDER: saved path -> file content
    threads,             \* the Threads started by start_upload: a bag of thread states
    response,            \* the HTTP response the last step sent; NoResponse after a worker step
    committed            \* upload_status as of the last completed logical update

vars == <<upload_status, upload_thread, upload_pause_event, upload_stop_event,
          session, disk, threads, response, committed>>

----------------------------------------------------------------------------
(* Bounds of the model *)

\* longest product list a spreadsheet holds
MaxProducts == 2

\* number of worker threads start_upload may launch in one behaviour
MaxStarts == 2

----------------------------------------------------------------------------
(* Values *)

None == "None"

\* 'file_path' not in session
NoPath == <<"None">>

\* A spreadsheet file: whether parse_spreadsheet accepts it, and its product
\* rows, each reduced to its 1-based position in the sheet.
Rows(n) == [i \in 1..n |-> i]

Unparsable == [parses |-> FALSE, rows |-> <<>>]
Contents == {[parses |-> TRUE, rows |-> Rows(n)] : n \in 0..MaxProducts} \cup {Unparsable}

\* File names a client may send, as character sequences.
NameEmpty == <<>>
NameCsv == <<"a", ".", "C", "S", "V">>
NameTxt == <<"a", ".", "t", "x", "t">>
NameNoDot == <<"a">>
Filenames == {NameEmpty, NameCsv, NameTxt, NameNoDot}

\* request.files: no 'file' part, or a file with a name and a content
NoFilePart == [part |-> FALSE]
UploadRequests ==
    {NoFilePart} \cup
    [part : {TRUE}, filename : Filenames \ {NameCsv}, content : {Unparsable}] \cup
    [part : {TRUE}, filename : {NameCsv}, content : Contents]

\* request.json of /start
StartRequests == [delay : {"2", "abc"}, image_mode : {"local"}]

\* 'image_mappings' not in session
NoMappings == <<>>

\* Image files a client may send to /upload_image, and the spreadsheet's
\* image paths they stand for, as character sequences.
ImagePng == <<"x", ".", "p", "n", "g">>
ImageJpg == <<"y", ".", "j", "p", "g">>
ImageExe == <<"z", ".", "e", "x", "e">>
OriginalPaths == {<<"p", "1">>, <<"p", "2">>}

\* request.files and request.form of /upload_image; an empty index or
\* original_path models a missing form field
NoImagePart == [part |-> FALSE]
ImageRequests ==
    {NoImagePart} \cup
    [part : {TRUE}, filename : {NameEmpty, ImageExe}, index : {<<"0">>},
     original_path : {<<"p", "1">>}] \cup
    [part : {TRUE}, filename : {ImagePng}, index : {<<>>, <<"0">>},
     original_path : OriginalPaths \cup {<<>>}] \cup
    [part : {TRUE}, filename : {ImageJpg}, index : {<<"0">>},
     original_path : OriginalPaths]

ALLOWED_IMAGE_EXTENSIONS ==
    {<<"p", "n", "g">>, <<"j", "p", "g">>, <<"j", "p", "e", "g">>, <<"g", "i", "f">>}

\* a saved image: a file that is no spreadsheet
ImageFile == [parses |-> FALSE, rows |-> <<>>]

ALLOWED_SPREADSHEET_EXTENSIONS == {<<"c", "s", "v">>, <<"x", "l", "s", "x">>, <<"x", "l", "s">>}

IdleStatus ==
    [total |-> 0, current |-> 0, success |-> 0, failed |-> 0,
     status |-> "idle", errors |-> <<>>, current_product |-> ""]

NoteRecord == [product |-> "note", title |-> "Local Execution Required"]
GlobalRecord == [product |-> "global", title |-> "Global Error"]

----------------------------------------------------------------------------
(* Pure helpers *)

\* str.lower() on the characters that occur in Filenames
LowerChar(c) ==
    CASE c = "C" -> "c"
      [] c = "S" -> "s"
      [] c = "V" -> "v"
      [] OTHER -> c

Lower(s) == [i \in 1..Len(s) |-> LowerChar(s[i])]

\* filename.rsplit('.', 1)[1]: the characters after the last '.'
LastDot(s) ==
    LET dots == {i \in 1..Len(s) : s[i] = "."}
    IN  IF dots = {} THEN 0 ELSE CHOOSE i \in dots : \A j \in dots : j <= i

AfterLastDot(s) == SubSeq(s, LastDot(s) + 1, Len(s))

allowed_spreadsheet_file(filename) ==
    /\ LastDot(filename) # 0
    /\ Lower(AfterLastDot(filename)) \in ALLOWED_SPREADSHEET_EXTENSIONS

allowed_image_file(filename) ==
    /\ LastDot(filename) # 0
    /\ Lower(AfterLastDot(filename)) \in ALLOWED_IMAGE_EXTENSIONS

\* lines 159-166: the image path a product is uploaded with, given the
\* mappings the worker holds
resolve(image_mappings, original_path) ==
    IF original_path \in DOMAIN image_mappings
      THEN image_mappings[original_path]
      ELSE original_path

\* parse_spreadsheet(file_path) raises on a file it cannot parse
ParseRaises(path) == ~disk[path].parses

\* parse_spreadsheet(file_path): the product list of a parsable file
parse_spreadsheet(path) == disk[path].rows

\* int(data.get('delay', 2)) raises ValueError on a non-numeric string
IntRaises(s) == s \notin {"2"}

IntOf(s) == CASE s = "2" -> 2 [] OTHER -> 0

Resp(handler, code, body) == [handler |-> handler, code |-> code, body |-> body]

NoBody == [json |-> TRUE]

NoResponse == Resp(None, 0, NoBody)

----------------------------------------------------------------------------
(* Initial state: the module has been imported, no request served yet *)

Init ==
    /\ upload_status = IdleStatus
    /\ upload_thread = 0
    /\ upload_pause_event = FALSE
    /\ upload_stop_event = FALSE
    /\ session = [file_path |-> NoPath, image_mappings |-> NoMappings]
    /\ disk = <<>>
    /\ threads = EmptyBag
    /\ response = NoResponse
    /\ committed = IdleStatus

----------------------------------------------------------------------------
(* Request handlers *)

\* POST /upload
upload_file(req) ==
    /\ upload_status' = IdleStatus
    /\ committed' = IdleStatus
    /\ UNCHANGED <<upload_thread, upload_pause_event, upload_stop_event, threads>>
    /\ IF ~req.part
         THEN /\ response' = Resp("upload", 400, NoBody)
              /\ UNCHANGED <<session, disk>>
       ELSE IF req.filename = NameEmpty
         THEN /\ response' = Resp("upload", 400, NoBody)
              /\ UNCHANGED <<session, disk>>
       ELSE IF ~allowed_spreadsheet_file(req.filename)
         THEN /\ response' = Resp("upload", 400, NoBody)
              /\ UNCHANGED <<session, disk>>
       ELSE /\ disk' = (req.filename :> req.content) @@ disk
            /\ IF ~req.content.parses
                 THEN /\ response' = Resp("upload", 500, NoBody)
                      /\ UNCHANGED session
                 ELSE /\ session' = [session EXCEPT !.file_path = req.filename]
                      /\ response' = Resp("upload", 200, NoBody)

\* threading.Thread(target=upload_worker, args=(file_path, headless, delay))
\* automation is the worker's local for the MerchAutomation handle: "unbound"
\* until it is assigned, "open" once created, "closed" after close(). Its
\* only assignment (line 136) is commented out.
NewThread(file_path, delay) ==
    [pc |-> "parse", file_path |-> file_path, headless |-> FALSE,
     delay |-> delay, products |-> <<>>, automation |-> "unbound"]

\* start_upload that also resets the status record when it accepts
start_upload_resetting(data) ==
    /\ BagCardinality(threads) < MaxStarts
    /\ IF session.file_path = NoPath \/ upload_status.status = "running"
         THEN /\ response' = Resp("start", 400, NoBody)
              /\ UNCHANGED <<upload_status, upload_thread, upload_pause_event,
                             upload_stop_event, session, disk, threads, committed>>
       ELSE IF IntRaises(data.delay)
         THEN /\ response' = Resp("start", 500, NoBody)
              /\ UNCHANGED <<upload_status, upload_thread, upload_pause_event,
                             upload_stop_event, session, disk, threads, committed>>
       ELSE /\ upload_status' = IdleStatus
            /\ committed' = IdleStatus
            /\ upload_pause_event' = FALSE
            /\ upload_stop_event' = FALSE
            /\ threads' = threads (+) SetToBag({NewThread(session.file_path, IntOf(data.delay))})
            /\ upload_thread' = BagCardinality(threads) + 1
            /\ response' = Resp("start", 200, NoBody)
            /\ UNCHANGED <<session, disk>>

\* POST /start
start_upload(data) ==
    /\ BagCardinality(threads) < MaxStarts
    /\ IF session.file_path = NoPath
         THEN /\ response' = Resp("start", 400, NoBody)
              /\ UNCHANGED <<upload_status, upload_thread, upload_pause_event,
                             upload_stop_event, session, disk, threads, committed>>
       ELSE IF upload_status.status = "running"
         THEN /\ response' = Resp("start", 400, NoBody)
              /\ UNCHANGED <<upload_status, upload_thread, upload_pause_event,
                             upload_stop_event, session, disk, threads, committed>>
       ELSE IF IntRaises(data.delay)
         THEN /\ response' = Resp("start", 500, NoBody)
              /\ UNCHANGED <<upload_status, upload_thread, upload_pause_event,
                             upload_stop_event, session, disk, threads, committed>>
       ELSE /\ upload_pause_event' = FALSE
            /\ upload_stop_event' = FALSE
            /\ threads' = threads (+) SetToBag({NewThread(session.file_path, IntOf(data.delay))})
            /\ upload_thread' = BagCardinality(threads) + 1
            /\ response' = Resp("start", 200, NoBody)
            /\ UNCHANGED <<upload_status, session, disk, committed>>

\* GET /status
get_status ==
    /\ response' = Resp("status", 200, upload_status)
    /\ UNCHANGED <<upload_status, upload_thread, upload_pause_event,
                   upload_stop_event, session, disk, threads, committed>>

\* pause_upload with the event set before the status is looked at
pause_upload_unchecked ==
    /\ upload_pause_event' = TRUE
    /\ response' = IF upload_status.status # "running"
                     THEN Resp("pause", 400, NoBody)
                     ELSE Resp("pause", 200, NoBody)
    /\ UNCHANGED <<upload_status, upload_thread, upload_stop_event,
                   session, disk, threads, committed>>

\* POST /pause
pause_upload ==
    /\ IF upload_status.status # "running"
         THEN /\ response' = Resp("pause", 400, NoBody)
              /\ UNCHANGED upload_pause_event
         ELSE /\ upload_pause_event' = TRUE
              /\ response' = Resp("pause", 200, NoBody)
    /\ UNCHANGED <<upload_status, upload_thread, upload_stop_event,
                   session, disk, threads, committed>>

\* resume_upload that tests the pause event instead of the status
resume_upload_on_event ==
    /\ IF ~upload_pause_event
         THEN /\ response' = Resp("resume", 400, NoBody)
              /\ UNCHANGED upload_pause_event
         ELSE /\ upload_pause_event' = FALSE
              /\ response' = Resp("resume", 200, NoBody)
    /\ UNCHANGED <<upload_status, upload_thread, upload_stop_event,
                   session, disk, threads, committed>>

\* POST /resume
resume_upload ==
    /\ IF upload_status.status # "paused"
         THEN /\ response' = Resp("resume", 400, NoBody)
              /\ UNCHANGED upload_pause_event
         ELSE /\ upload_pause_event' = FALSE
              /\ response' = Resp("resume", 200, NoBody)
    /\ UNCHANGED <<upload_status, upload_thread, upload_stop_event,
                   session, disk, threads, committed>>

\* POST /stop
stop_upload ==
    /\ IF upload_status.status \notin {"running", "paused"}
         THEN /\ response' = Resp("stop", 400, NoBody)
              /\ UNCHANGED <<upload_pause_event, upload_stop_event>>
         ELSE /\ upload_stop_event' = TRUE
              /\ upload_pause_event' = FALSE
              /\ response' = Resp("stop", 200, NoBody)
    /\ UNCHANGED <<upload_status, upload_thread, session, disk, threads, committed>>

\* POST /upload_image. The session is a signed cookie: Flask writes it back
\* only when a key of the session itself was assigned during the request
\* (session.modified). Line 260 assigns a key; line 262 changes the dict
\* stored under it, which the session does not notice. The cookie written
\* after line 260 is serialised when the handler has returned, so it holds
\* the entry of line 262.
upload_image(req) ==
    /\ UNCHANGED <<upload_status, upload_thread, upload_pause_event,
                   upload_stop_event, threads, committed>>
    /\ IF ~req.part
         THEN /\ response' = Resp("upload_image", 400, NoBody)
              /\ UNCHANGED <<session, disk>>
       ELSE IF req.filename = NameEmpty
         THEN /\ response' = Resp("upload_image", 400, NoBody)
              /\ UNCHANGED <<session, disk>>
       ELSE IF ~allowed_image_file(req.filename)
         THEN /\ response' = Resp("upload_image", 400, NoBody)
              /\ UNCHANGED <<session, disk>>
       ELSE IF req.index = <<>> \/ req.original_path = <<>>
         THEN /\ response' = Resp("upload_image", 400, NoBody)
              /\ UNCHANGED <<session, disk>>
       ELSE /\ disk' = (req.filename :> ImageFile) @@ disk
            /\ IF session.image_mappings = NoMappings
                 THEN session' = [session EXCEPT
                                    !.image_mappings = (req.original_path :> req.filename)]
                 ELSE UNCHANGED session
            /\ response' = Resp("upload_image", 200, [json |-> TRUE, path |-> req.filename])

----------------------------------------------------------------------------
(* upload_worker, one step per statement *)

\* What a worker step leaves alone; a worker step sends no HTTP response.
WorkerFrame ==
    /\ response' = NoResponse
    /\ UNCHANGED <<upload_thread, upload_pause_event, upload_stop_event, session, disk>>

\* thread th moves on to the statement at label
Goto(th, label) ==
    threads' = (threads (-) SetToBag({th})) (+) SetToBag({[th EXCEPT !.pc = label]})

\* the worker function returns: the thread ends
Return(th) == Goto(th, "done")

\* products = parse_spreadsheet(file_path), inside the try
worker_parse(th) ==
    /\ th.pc = "parse"
    /\ IF ParseRaises(th.file_path)
         THEN Goto(th, "except_status")
         ELSE threads' = (threads (-) SetToBag({th}))
                         (+) SetToBag({[th EXCEPT !.pc = "set_total",
                                           !.products = parse_spreadsheet(th.file_path)]})
    /\ UNCHANGED <<upload_status, committed>>
    /\ WorkerFrame

\* worker_set_total storing the length under the key "current"
worker_set_total_as_current(th) ==
    /\ th.pc = "set_total"
    /\ upload_status' = [upload_status EXCEPT !.current = Len(th.products)]
    /\ threads' = (threads (-) SetToBag({th}))
                  (+) SetToBag({[th EXCEPT !.pc = "set_running", !.products = <<>>]})
    /\ UNCHANGED committed
    /\ WorkerFrame

\* upload_status["total"] = len(products). This is the last read of products
\* (the loop over it lies behind the return of line 132), so the model drops
\* the local here.
worker_set_total(th) ==
    /\ th.pc = "set_total"
    /\ upload_status' = [upload_status EXCEPT !.total = Len(th.products)]
    /\ threads' = (threads (-) SetToBag({th}))
                  (+) SetToBag({[th EXCEPT !.pc = "set_running", !.products = <<>>]})
    /\ UNCHANGED committed
    /\ WorkerFrame

\* upload_status["status"] = "running"
worker_set_running(th) ==
    /\ th.pc = "set_running"
    /\ upload_status' = [upload_status EXCEPT !.status = "running"]
    /\ committed' = upload_status'
    /\ Goto(th, "append_note")
    /\ WorkerFrame

\* upload_status["errors"].append({"product": "note", ...})
worker_append_note(th) ==
    /\ th.pc = "append_note"
    /\ upload_status' = [upload_status EXCEPT !.errors = Append(@, NoteRecord)]
    /\ committed' = upload_status'
    /\ Goto(th, "sleep")
    /\ WorkerFrame

\* worker_set_completed that returns without the assignment of line 129
worker_set_completed_skipped(th) ==
    /\ th.pc = "sleep"
    /\ UNCHANGED <<upload_status, committed>>
    /\ Return(th)
    /\ WorkerFrame

\* time.sleep(5); upload_status["status"] = "completed"; return
worker_set_completed(th) ==
    /\ th.pc = "sleep"
    /\ upload_status' = [upload_status EXCEPT !.status = "completed"]
    /\ committed' = upload_status'
    /\ Return(th)
    /\ WorkerFrame

\* except Exception: upload_status["status"] = "error"
worker_except_status(th) ==
    /\ th.pc = "except_status"
    /\ upload_status' = [upload_status EXCEPT !.status = "error"]
    /\ Goto(th, "except_append")
    /\ UNCHANGED committed
    /\ WorkerFrame

\* worker_except_append that returns without recording the global error
worker_except_append_dropped(th) ==
    /\ th.pc = "except_append"
    /\ UNCHANGED <<upload_status, committed>>
    /\ Return(th)
    /\ WorkerFrame

\* upload_status["errors"].append({"product": "global", ...}); the thread ends
worker_except_append(th) ==
    /\ th.pc = "except_append"
    /\ upload_status' = [upload_status EXCEPT !.errors = Append(@, GlobalRecord)]
    /\ committed' = upload_status'
    /\ Return(th)
    /\ WorkerFrame

upload_worker(th) ==
    \/ worker_parse(th)
    \/ worker_set_total(th)
    \/ worker_set_running(th)
    \/ worker_append_note(th)
    \/ worker_set_completed(th)
    \/ worker_except_status(th)
    \/ worker_except_append(th)

----------------------------------------------------------------------------

Next ==
    \/ \E req \in UploadRequests : upload_file(req)
    \/ \E data \in StartRequests : start_upload(data)
    \/ get_status
    \/ pause_upload
    \/ resume_upload
    \/ stop_upload
    \/ \E th \in BagToSet(threads) : upload_worker(th)

Spec == Init /\ [][Next]_vars

\* The requests that write the session or the upload folders, and the worker
NextImages ==
    \/ \E req \in ImageRequests : upload_image(req)
    \/ \E req \in UploadRequests : upload_file(req)
    \/ \E data \in StartRequests : start_upload(data)
    \/ \E th \in BagToSet(threads) : upload_worker(th)

SpecImages == Init /\ [][NextImages]_vars

\* A started Thread is scheduled by the interpreter until it returns: no
\* statement of upload_worker blocks (time.sleep(5) ends by itself).
\* The requests that can act on a run, and the worker (get_status only reads)
RunNext ==
    \/ \E req \in UploadRequests : upload_file(req)
    \/ \E data \in StartRequests : start_upload(data)
    \/ pause_upload
    \/ resume_upload
    \/ stop_upload
    \/ \E th \in BagToSet(threads) : upload_worker(th)

FairSpec == Init /\ [][RunNext]_vars /\ WF_vars(\E th \in BagToSet(threads) : upload_worker(th))

----------------------------------------------------------------------------
(* Vocabulary of the claims *)

RECURSIVE CopiesOf(_, _)
CopiesOf(S, B) ==
    IF S = {} THEN 0
    ELSE LET x == CHOOSE y \in S : TRUE
         IN  CopiesIn(x, B) + CopiesOf(S \ {x}, B)

\* the worker threads that have been started and have not returned
ActiveThreads == CopiesOf({th \in BagToSet(threads) : th.pc # "done"}, threads)

Accepted(handler) == response.handler = handler /\ response.code = 200

CountersZero ==
    /\ upload_status.current = 0
    /\ upload_status.success = 0
    /\ upload_status.failed = 0

\* what a rejected control request must leave alone
ControlState == <<upload_status, upload_pause_event, upload_stop_event,
                  upload_thread, threads>>

\* this step takes a thread away from the statement at label
ThreadLeaves(label) ==
    \E th \in BagToSet(threads) :
        th.pc = label /\ CopiesIn(th, threads') = CopiesIn(th, threads) - 1

\* this step brings a thread to the statement at label
ThreadArrives(label) ==
    \E th \in BagToSet(threads') :
        th.pc = label /\ CopiesIn(th, threads') = CopiesIn(th, threads) + 1

----------------------------------------------------------------------------
(* C1 *)

\* C1: at most one execution task is active at any time: no second worker
\* thread is launched while an earlier one has not reached its terminal status.
C1_SingleJob == ActiveThreads <= 1

----------------------------------------------------------------------------
(* C2 *)

\* C2: when a Start has just been accepted, current, success and failed are 0
\* and the error log is empty, so no record of an earlier run is left in it.
C2_StartResets ==
    Accepted("start") => CountersZero /\ upload_status.errors = <<>>

----------------------------------------------------------------------------
(* C3 *)

\* C3: once a Stop has been accepted (StopRequested stays set until the next
\* accepted Start), the run never ends as 'completed'.
C3_StopNeverCompletes ==
    upload_stop_event => upload_status.status # "completed"

----------------------------------------------------------------------------
(* C4 *)

\* C4: after an accepted Pause with no Stop, the run does not reach 'completed'
\* while PauseRequested is still set.
C4_PauseHoldsRun ==
    (upload_pause_event /\ ~upload_stop_event) => upload_status.status # "completed"

----------------------------------------------------------------------------
(* C5 *)

\* C5: Start is rejected when the status is 'running'; Pause is accepted exactly
\* when it is 'running', Resume exactly when 'paused', Stop exactly when
\* 'running' or 'paused'; and a rejected Start, Pause, Resume or Stop changes
\* neither the status record, nor a signal flag, nor the worker threads.
C5_ControlValidation ==
    [][LET handler == response'.handler
           ok == response'.code = 200
           status == upload_status.status
       IN  /\ handler = "start" =>
                 /\ status = "running" => ~ok
                 /\ ~ok => UNCHANGED ControlState
           /\ handler = "pause" =>
                 /\ ok <=> status = "running"
                 /\ ~ok => UNCHANGED ControlState
           /\ handler = "resume" =>
                 /\ ok <=> status = "paused"
                 /\ ~ok => UNCHANGED ControlState
           /\ handler = "stop" =>
                 /\ ok <=> status \in {"running", "paused"}
                 /\ ~ok => UNCHANGED ControlState]_vars

\* a Pause has just been rejected after the run ended, with StopRequested
\* still set from an accepted Stop
C5_Witness ==
    /\ response.handler = "pause"
    /\ response.code = 400
    /\ upload_status.status = "completed"
    /\ upload_stop_event

----------------------------------------------------------------------------
(* C6 *)

\* C6: in every reachable state success + failed <= current <= total.
C6_CounterOrder ==
    /\ upload_status.success + upload_status.failed <= upload_status.current
    /\ upload_status.current <= upload_status.total

\* a status snapshot taken while a run over two products is running
C6_Witness ==
    /\ response.handler = "status"
    /\ response.body.status = "running"
    /\ response.body.total = 2

----------------------------------------------------------------------------
(* C7 *)

\* C7: a Start is never accepted while the item list cannot be parsed.
C7_UnparsableStartRejected ==
    Accepted("start") => ~ParseRaises(session.file_path)

----------------------------------------------------------------------------
(* C8 *)

\* C8: every snapshot GetStatus returns equals the status record as it stood
\* at the end of a whole logical update, never in the middle of one.
C8_WholeSnapshots ==
    response.handler = "status" => response.body = committed

----------------------------------------------------------------------------
(* C9 *)

\* C9: a worker whose parse_spreadsheet raises records nothing for an item and
\* goes to the handler; the handler sets the status to 'error', then appends
\* exactly one record with product 'global' to the error log, leaving current,
\* success, failed and total as they were, and the thread terminates.
C9_FatalPath ==
    [][/\ (\E th \in BagToSet(threads) :
                /\ th.pc = "parse"
                /\ ParseRaises(th.file_path)
                /\ CopiesIn(th, threads') = CopiesIn(th, threads) - 1) =>
             /\ ThreadArrives("except_status")
             /\ UNCHANGED upload_status
       /\ ThreadLeaves("except_status") =>
             /\ ThreadArrives("except_append")
             /\ upload_status' = [upload_status EXCEPT !.status = "error"]
       /\ ThreadLeaves("except_append") =>
             /\ ThreadArrives("done")
             /\ upload_status' =
                    [upload_status EXCEPT !.errors = Append(@, GlobalRecord)]]_vars

\* a run has ended on the fatal path: its thread has returned, the status is
\* 'error', the log holds the one global record and no item was counted
C9_Witness ==
    /\ \E th \in BagToSet(threads) : th.pc = "done"
    /\ ActiveThreads = 0
    /\ upload_status.status = "error"
    /\ upload_status.errors = <<GlobalRecord>>
    /\ CountersZero

----------------------------------------------------------------------------
(* C10 *)

\* C10: a run over n >= 1 items on which the processor fails on item k only
\* ends 'completed' with failed = 1, success = n - 1, current = n and an error
\* log of length 1 that references item k. The worker never calls the
\* processor, so its result is the same for every k: whenever the status is
\* 'completed' over total = n >= 1 items, the record must read as the claim
\* says for some k in 1..n.
C10_FailureIsolation ==
    (upload_status.status = "completed" /\ upload_status.total >= 1) =>
        /\ upload_status.failed = 1
        /\ upload_status.success = upload_status.total - 1
        /\ upload_status.current = upload_status.total
        /\ Len(upload_status.errors) = 1
        /\ upload_status.errors[1].product \in 1..upload_status.total
----------------------------------------------------------------------------
(* C11 *)

\* C11: after an accepted SubmitImageMapping(p, q), sent as a request of its
\* own, resolve(p) over the mappings the session holds returns q; the last
\* submission for p wins and the entries of other paths are retained.
C11_MappingRoundTrip ==
    [][\A req \in ImageRequests :
          (upload_image(req) /\ response'.code = 200) =>
              /\ resolve(session'.image_mappings, req.original_path) = req.filename
              /\ \A p \in DOMAIN session.image_mappings \ {req.original_path} :
                    resolve(session'.image_mappings, p) = session.image_mappings[p]]_vars
----------------------------------------------------------------------------
(* C12 *)

TerminalStatus == upload_status.status \in {"completed", "error"}

----------------------------------------------------------------------------
(* C13 *)

TerminalStates == {"completed", "stopped", "error"}

\* this step is a statement of a worker thread
WorkerStep == \E th \in BagToSet(threads) : CopiesIn(th, threads') < CopiesIn(th, threads)

----------------------------------------------------------------------------
(* C14 *)

\* a worker has set total and has not yet written its terminal status
RunActive == \E th \in BagToSet(threads) : th.pc \in {"set_running", "append_note", "sleep"}

\* C14: while a run is active the status record (total, the counters, the
\* status, the error log) is changed by steps of the worker only, never by a
\* request handler.
C14_OnlyWorkerWritesDuringRun ==
    [][(RunActive /\ upload_status' # upload_status) => WorkerStep]_vars
----------------------------------------------------------------------------
(* C15 *)

\* C15: when the worker thread of a run takes its first step (the parse of
\* line 116), neither upload_pause_event nor upload_stop_event is set.
C15_SignalsClearAtFirstStep ==
    [][ThreadLeaves("parse") => (~upload_pause_event /\ ~upload_stop_event)]_vars
----------------------------------------------------------------------------
(* C16 *)

\* C16: close runs on every exit path of the worker: a thread that has
\* returned has closed the item processor, and none holds it open.
C16_ProcessorClosedOnExit ==
    \A th \in BagToSet(threads) : th.pc = "done" => th.automation = "closed"

----------------------------------------------------------------------------
(* C17 *)

\* C17: the status is always one of 'idle', 'running', 'completed', 'error'
\* ('paused' and 'stopped' are never written), and every Resume request is
\* rejected.
C17_NeverPausedOrStopped ==
    /\ upload_status.status \in {"idle", "running", "completed", "error"}
    /\ response.handler = "resume" => response.code = 400

\* a Resume has just been rejected although a Pause was accepted for the
\* running upload
C17_Witness ==
    /\ response.handler = "resume"
    /\ response.code = 400
    /\ upload_pause_event
    /\ upload_status.status = "running"
    /\ RunActive

====
